---- MODULE Spec2Model ----
(***************************************************************************)
(* Migraine integrator (migraine_integrator_webhooks.py) and the           *)
(* prediction store (predictioner/predict.py, predictioner/api_server.py). *)
(*                                                                         *)
(* JSON numbers are fixed-point integers scaled by Unit (10^4, the         *)
(* precision save_prediction rounds to), so 0.40 is 4000 and 0.75 is 7500. *)
(* A JSON value is a record [k, n, s]: k is the Python type the parser     *)
(* produces, n the number (scaled) or the bool (0/1), s the string.        *)
(* A JSON object is a function from Keys to JSON values; a key the object  *)
(* does not have maps to Absent.                                           *)
(***************************************************************************)
EXTENDS Integers, Sequences, FiniteSets, TLC

Unit == 10000

CRITICAL_THRESHOLD == 7500
WARNING_THRESHOLD == 4000
WEBHOOK_ID_CRITICAL_MIGRAINE == "critical_migraine_webhook"
WEBHOOK_ID_MIGRAINE_WARNING == "migraine_warning_webhook"

\* Largest value of the clock (seconds since the model's epoch).
MaxTime == 2

---------------------------------------------------------------------------
\* JSON values as Python objects

Keys == {"migraine_probability", "source", "timestamp", "error", "message"}

Absent == [k |-> "absent", n |-> 0, s |-> ""]
Null == [k |-> "null", n |-> 0, s |-> ""]
Num(x) == [k |-> "num", n |-> x, s |-> ""]
Str(t) == [k |-> "str", n |-> 0, s |-> t]
Bool(b) == [k |-> "bool", n |-> IF b THEN 1 ELSE 0, s |-> ""]
JList == [k |-> "list", n |-> 0, s |-> ""]
JObject == [k |-> "dict", n |-> 0, s |-> ""]

EmptyDict == [key \in Keys |-> Absent]

\* key in d
HasKey(d, key) == d[key].k # "absent"

\* d.get(key, default)
DictGet(d, key, default) == IF HasKey(d, key) THEN d[key] ELSE default

\* isinstance(v, (int, float)): bool is a subclass of int
IsIntOrFloat(v) == v.k \in {"num", "bool"}

\* The number Python compares with: True is 1, False is 0.
NumVal(v) == IF v.k = "bool" THEN v.n * Unit ELSE v.n

\* int(time.time()) as a JSON number
EpochNow(t) == Num(t * Unit)

---------------------------------------------------------------------------
\* Responses the source endpoint can give to requests.get

ProbVals == {0 - 1, 0, 3999, 4000, 7499, 7500, 8000, 10000, 10001}

ProbFields ==
    {Absent, Null, Str("0.5"), Bool(TRUE), Bool(FALSE), JList, JObject}
        \cup {Num(p) : p \in ProbVals}

SourceFields == {Absent, Str("wearable")}
TimestampFields == {Absent, Num(7 * Unit)}

Reading(p, src, ts) ==
    [key \in Keys |->
        CASE key = "migraine_probability" -> p
          [] key = "source" -> src
          [] key = "timestamp" -> ts
          [] OTHER -> Absent]

Objects ==
    {Reading(p, src, ts) : p \in ProbFields, src \in SourceFields,
                           ts \in TimestampFields}

\* A body: kind is the Python type response.json() returns ("malformed" when
\* it raises); hasKey tells, for a str, whether the text contains
\* "migraine_probability" and, for a list, whether it is one of its elements.
Body(kind, hasKey, obj) == [kind |-> kind, hasKey |-> hasKey, obj |-> obj]

Bodies ==
    {Body(kind, FALSE, EmptyDict) : kind \in {"malformed", "num", "null", "bool"}}
        \cup {Body(kind, h, EmptyDict) : kind \in {"str", "list"}, h \in BOOLEAN}
        \cup {Body("dict", FALSE, o) : o \in Objects}

Statuses == {200, 304, 404, 500}

\* outcome: "ok" (a response arrived), "timeout", "connerr", "reqexc"
Response(outcome, status, body) ==
    [outcome |-> outcome, status |-> status, body |-> body]

Responses ==
    {Response("ok", st, b) : st \in Statuses, b \in Bodies}
        \cup {Response(o, 0, Body("malformed", FALSE, EmptyDict)) :
                o \in {"timeout", "connerr", "reqexc"}}

\* A raise_for_status that lets client errors through.
RaisesForServerErrorsOnly(status) == 500 <= status /\ status < 600

\* response.raise_for_status(): HTTPError for 4xx and 5xx
RaisesForStatus(status) == 400 <= status /\ status < 600

---------------------------------------------------------------------------
\* get_migraine_data_from_external_api

Returned(kind, cause, data) == [kind |-> kind, cause |-> cause, data |-> data]

\* kind "data": the dict is returned; "none": None is returned; "raise": an
\* exception leaves the function.  cause names the branch taken.
get_migraine_data_from_external_api(resp) ==
    LET body == resp.body
        prob == body.obj["migraine_probability"]
    IN  CASE resp.outcome = "timeout" -> Returned("none", "Timeout", EmptyDict)
          [] resp.outcome = "connerr" -> Returned("none", "ConnectionError", EmptyDict)
          [] resp.outcome = "reqexc" -> Returned("none", "RequestException", EmptyDict)
          [] OTHER ->
             IF RaisesForStatus(resp.status)
             THEN Returned("none", "HTTPError", EmptyDict)
             ELSE IF body.kind = "malformed"
             THEN Returned("none", "JSONDecodeError", EmptyDict)
             ELSE IF body.kind \in {"num", "null", "bool"}
             THEN Returned("raise", "TypeError", EmptyDict)
             ELSE IF body.kind \in {"str", "list"}
             THEN IF body.hasKey
                  THEN Returned("raise", "TypeError", EmptyDict)
                  ELSE Returned("none", "Validation", EmptyDict)
             ELSE IF ~HasKey(body.obj, "migraine_probability") \/ ~IsIntOrFloat(prob)
             THEN Returned("none", "Validation", EmptyDict)
             ELSE IF ~(0 <= NumVal(prob) /\ NumVal(prob) <= Unit)
             THEN Returned("none", "Validation", EmptyDict)
             ELSE Returned("data", "ok", body.obj)

\* A main that does not test what the fetch returned.
TruthyUnchecked(r) == r.kind # "raise"

\* if migraine_data: None and the empty dict are falsy
Truthy(r) == r.kind = "data" /\ \E key \in Keys : HasKey(r.data, key)

---------------------------------------------------------------------------
\* trigger_home_assistant_webhook

PostOutcomes == {"ok", "timeout", "connerr"}
PostStatuses == {200, 404, 500}

\* A trigger whose except clause misses the HTTPError of raise_for_status.
trigger_uncaught_http_error(outcome, status) ==
    IF outcome # "ok" THEN [raised |-> FALSE, result |-> "DISPATCH_FAILED"]
    ELSE IF RaisesForStatus(status) THEN [raised |-> TRUE, result |-> "DISPATCH_FAILED"]
    ELSE [raised |-> FALSE, result |-> "DISPATCHED"]

\* The function returns None on every path; the result names the path.
trigger_home_assistant_webhook(outcome, status) ==
    IF outcome # "ok" THEN [raised |-> FALSE, result |-> "DISPATCH_FAILED"]
    ELSE IF RaisesForStatus(status) THEN [raised |-> FALSE, result |-> "DISPATCH_FAILED"]
    ELSE [raised |-> FALSE, result |-> "DISPATCHED"]

---------------------------------------------------------------------------
\* predictioner: save_prediction (predict.py) and the API server

\* Largest number of save_prediction calls in a behaviour.
MaxSaves == 2

\* Arguments of save_prediction, in units of 10^-5; none lies halfway between
\* two multiples of 10^-4.
SaveInputs == {0, 40004, 74996, 100000}

\* round(x, 4) of a value given in units of 10^-5, in units of 10^-4
Round4(x) == (x + 5) \div 10

\* The text of a JSON document is a sequence of tokens: "{", then a key and
\* a value for every entry, then "}".
Punct(c) == [k |-> "punct", n |-> 0, s |-> c]

\* The order in which a dict built by this program lists its keys.
KeyOrder == <<"migraine_probability", "timestamp", "source", "error", "message">>

RECURSIVE DumpEntries(_, _)
DumpEntries(d, i) ==
    IF i > Len(KeyOrder) THEN <<>>
    ELSE (IF HasKey(d, KeyOrder[i]) THEN <<Str(KeyOrder[i]), d[KeyOrder[i]]>> ELSE <<>>)
            \o DumpEntries(d, i + 1)

\* json.dump(d, f, indent=2): the text written for the dict d
json_dump(d) == <<Punct("{")>> \o DumpEntries(d, 1) \o <<Punct("}")>>

\* json.load(f): the dict the text stands for, or ok = FALSE when the parser
\* raises JSONDecodeError (empty text, or an object that is not closed).
json_load(text) ==
    LET n == Len(text)
        wellFormed ==
            /\ n >= 2
            /\ (n - 2) % 2 = 0
            /\ text[1] = Punct("{")
            /\ text[n] = Punct("}")
            /\ \A i \in 2..(n - 1) :
                  IF i % 2 = 0
                  THEN text[i].k = "str" /\ text[i].s \in Keys
                  ELSE text[i].k # "punct"
        at(key) == {i \in 2..(n - 1) : i % 2 = 0 /\ text[i] = Str(key)}
    IN  IF wellFormed
        THEN [ok |-> TRUE,
              data |-> [key \in Keys |->
                          IF at(key) = {} THEN Absent
                          ELSE text[(CHOOSE i \in at(key) : \A j \in at(key) : j <= i) + 1]]]
        ELSE [ok |-> FALSE, data |-> EmptyDict]

\* The file: exists is os.path.exists, text is what the file holds; it is
\* empty after open(path, 'w') has created or truncated it.
NoFile == [exists |-> FALSE, text |-> <<>>]

PredictionData(x, t) ==
    Reading(Num(Round4(x)), Str("manual_input"), EpochNow(t))

ErrorDict(error, message, t) ==
    [key \in Keys |->
        CASE key = "error" -> Str(error)
          [] key = "message" -> Str(message)
          [] key = "timestamp" -> EpochNow(t)
          [] OTHER -> Absent]

\* A read_prediction without the os.path.exists test: open() raises.
read_prediction_no_exists_test(f, t) ==
    IF ~f.exists
    THEN ErrorDict("Failed to read prediction", "No such file or directory", t)
    ELSE IF ~json_load(f.text).ok
    THEN ErrorDict("Failed to read prediction",
                   IF f.text = <<>> THEN "Expecting value" ELSE "Expecting ',' delimiter", t)
    ELSE json_load(f.text).data

\* A read_prediction that answers with an empty dict when json.load fails.
read_prediction_swallows_error(f, t) ==
    IF ~f.exists
    THEN ErrorDict("No prediction available",
                   "Run predict.py first to generate a prediction", t)
    ELSE json_load(f.text).data

read_prediction(f, t) ==
    IF ~f.exists
    THEN ErrorDict("No prediction available",
                   "Run predict.py first to generate a prediction", t)
    ELSE IF ~json_load(f.text).ok
    THEN ErrorDict("Failed to read prediction",
                   IF f.text = <<>> THEN "Expecting value" ELSE "Expecting ',' delimiter", t)
    ELSE json_load(f.text).data

Answer(status, body) == [status |-> status, body |-> body]

NoAnswer == Answer(0, EmptyDict)

get_prediction(f, t) ==
    LET data == read_prediction(f, t)
    IN  Answer(IF ~HasKey(data, "error") THEN 200 ELSE 404, data)

HealthBody(available, t) ==
    [status |-> "healthy", timestamp |-> t, prediction_available |-> available]

health_check(f, t) == [status |-> 200, body |-> HealthBody(f.exists, t)]

NoHealth == [status |-> 0, body |-> HealthBody(FALSE, 0)]

---------------------------------------------------------------------------
\* predict.py: validate_input and the input loop of main
\* A line of input is a sequence of one-character strings.

\* Largest number of lines the loop reads in a behaviour.
MaxInputs == 2

\* The lines typed: numbers within [0, 1] in the forms float accepts (with
\* blanks around, without a leading or trailing digit, with five decimals),
\* numbers outside, text that is no number, nan and inf, and the quit
\* commands.
UserInputs ==
    {<<"0">>, <<"1", ".">>, <<"-", "0">>, <<".", "5">>, <<" ", "0", ".", "5", " ">>,
     <<"0", ".", "4", "0", "0", "0", "4">>, <<"0", ".", "7", "4", "9", "9", "6">>,
     <<>>, <<".">>, <<"-", "1">>, <<"1", ".", "5">>, <<"-", ".", "5">>,
     <<"1", ".", "0", "0", "0", "0", "1">>, <<"1", "-">>, <<"a", "b", "c">>,
     <<"n", "a", "n">>, <<"i", "n", "f">>, <<"-", "i", "n", "f">>,
     <<"q">>, <<"Q">>, <<"q", "u", "i", "t">>, <<"E", "x", "i", "t">>, <<" ", "q", " ">>}

\* str.strip()
RECURSIVE Strip(_)
Strip(s) ==
    IF s = <<>> THEN s
    ELSE IF s[1] = " " THEN Strip(Tail(s))
    ELSE IF s[Len(s)] = " " THEN Strip(SubSeq(s, 1, Len(s) - 1))
    ELSE s

LowerChar(c) ==
    CASE c = "Q" -> "q" [] c = "U" -> "u" [] c = "I" -> "i" [] c = "T" -> "t"
      [] c = "E" -> "e" [] c = "X" -> "x" [] OTHER -> c

\* str.lower()
Lower(s) == [i \in 1..Len(s) |-> LowerChar(s[i])]

\* ['q', 'quit', 'exit']
QuitWords == {<<"q">>, <<"q", "u", "i", "t">>, <<"e", "x", "i", "t">>}

DigitChars == {"0", "1", "2", "3", "4", "5", "6", "7", "8", "9"}

DigitVal(c) ==
    CASE c = "0" -> 0 [] c = "1" -> 1 [] c = "2" -> 2 [] c = "3" -> 3 [] c = "4" -> 4
      [] c = "5" -> 5 [] c = "6" -> 6 [] c = "7" -> 7 [] c = "8" -> 8 [] c = "9" -> 9

RECURSIVE DigitsVal(_)
DigitsVal(s) ==
    IF s = <<>> THEN 0
    ELSE DigitsVal(SubSeq(s, 1, Len(s) - 1)) * 10 + DigitVal(s[Len(s)])

RECURSIVE Pow10(_)
Pow10(e) == IF e = 0 THEN 1 ELSE 10 * Pow10(e - 1)

\* The digits s with an optional point, in units of 10^-5; ok = FALSE when
\* s is not of that form.  At most five digits follow the point.
Unsigned(s) ==
    LET dots == {i \in 1..Len(s) : s[i] = "."}
        d == IF dots = {} THEN Len(s) + 1 ELSE CHOOSE i \in dots : TRUE
        whole == SubSeq(s, 1, d - 1)
        frac == SubSeq(s, d + 1, Len(s))
        ok == /\ Cardinality(dots) <= 1
              /\ \A i \in 1..Len(s) : s[i] \in DigitChars \cup {"."}
              /\ Len(whole) + Len(frac) > 0
              /\ Len(frac) <= 5
    IN  IF ok
        THEN [ok |-> TRUE,
              val |-> DigitsVal(whole) * 100000 + DigitsVal(frac) * Pow10(5 - Len(frac))]
        ELSE [ok |-> FALSE, val |-> 0]

FloatResult(kind, val) == [kind |-> kind, val |-> val]

\* float(value_str): kind "float" with the value in units of 10^-5, "nan",
\* "inf" (val is the sign), or "error" when float raises ValueError.
ParseFloat(s) ==
    LET neg == s # <<>> /\ s[1] = "-"
        body == IF neg THEN Tail(s) ELSE s
        sign == IF neg THEN 0 - 1 ELSE 1
        u == Unsigned(body)
    IN  IF Lower(body) = <<"n", "a", "n">> THEN FloatResult("nan", 0)
        ELSE IF Lower(body) = <<"i", "n", "f">> THEN FloatResult("inf", sign)
        ELSE IF u.ok THEN FloatResult("float", sign * u.val)
        ELSE FloatResult("error", 0)

Validated(ok, value, message) == [ok |-> ok, value |-> value, message |-> message]

\* A validate_input whose range test lets values up to 10.0 through.
validate_input_wide_range(value_str) ==
    LET f == ParseFloat(value_str)
    IN  IF f.kind = "error"
        THEN Validated(FALSE, 0, "Input must be a valid number")
        ELSE IF f.kind \in {"nan", "inf"} \/ ~(0 <= f.val /\ f.val <= 1000000)
        THEN Validated(FALSE, 0, "Value must be between 0.0 and 1.0")
        ELSE Validated(TRUE, f.val, "")

\* validate_input: ok with the float, or ValueError with its message
validate_input(value_str) ==
    LET f == ParseFloat(value_str)
    IN  IF f.kind = "error"
        THEN Validated(FALSE, 0, "Input must be a valid number")
        ELSE IF f.kind \in {"nan", "inf"} \/ ~(0 <= f.val /\ f.val <= 100000)
        THEN Validated(FALSE, 0, "Value must be between 0.0 and 1.0")
        ELSE Validated(TRUE, f.val, "")

\* The texts a file can hold when the with block of save_prediction is left
\* by an exception while json.dump runs: what was written so far is flushed.
Prefixes(text) == {SubSeq(text, 1, n) : n \in 0..Len(text)}

---------------------------------------------------------------------------
\* main() of the integrator

\* A payload that always stamps the current time and the default source.
WebhookPayloadDefaultsOnly(data, t) ==
    [probability |-> data["migraine_probability"],
     source |-> Str("unknown"),
     timestamp |-> EpochNow(t),
     integrator_run_time |-> t]

WebhookPayload(data, t) ==
    [probability |-> data["migraine_probability"],
     source |-> DictGet(data, "source", Str("unknown")),
     timestamp |-> DictGet(data, "timestamp", EpochNow(t)),
     integrator_run_time |-> t]

NoPayload ==
    [probability |-> Absent, source |-> Absent, timestamp |-> Absent,
     integrator_run_time |-> 0]

\* A classification with exclusive thresholds.
ClassifyExclusive(prob) ==
    IF NumVal(prob) > CRITICAL_THRESHOLD THEN "CRITICAL"
    ELSE IF NumVal(prob) > WARNING_THRESHOLD THEN "WARNING"
    ELSE "NONE"

\* The if / elif / else of main over the probability
Classify(prob) ==
    IF NumVal(prob) >= CRITICAL_THRESHOLD THEN "CRITICAL"
    ELSE IF NumVal(prob) >= WARNING_THRESHOLD THEN "WARNING"
    ELSE "NONE"

WebhookFor(tier) ==
    IF tier = "CRITICAL" THEN WEBHOOK_ID_CRITICAL_MIGRAINE
    ELSE WEBHOOK_ID_MIGRAINE_WARNING

VARIABLES
    now,            \* the clock, int(time.time())
    pc,             \* where main() is
    response,       \* what requests.get produced in this run
    migraine_data,  \* what get_migraine_data_from_external_api returned
    webhook_payload,\* the dict main builds
    payloadsBuilt,  \* how many times main built webhook_payload
    gets,           \* number of GETs sent to the source
    posts,          \* the webhook POSTs sent, in order
    file,           \* data/prediction.json
    savePc,         \* where save_prediction is: "idle" or "opened"
    prediction_data,\* the dict save_prediction is writing
    saves,          \* number of save_prediction calls started
    lastSaved,      \* the dict of the last save_prediction call that returned
    lastGet,        \* the last answer of GET /prediction
    lastHealth,     \* the last answer of GET /health
    loopPc,         \* where the input loop of predict.py is: "prompt" or "exited"
    inputs,         \* number of times the loop called input()
    user_input,     \* the last line read, stripped
    lastValid       \* the last line validate_input accepted, and when

ivars == <<pc, response, migraine_data, webhook_payload, payloadsBuilt, gets, posts>>
svars == <<file, savePc, prediction_data, saves, lastSaved, lastGet, lastHealth>>
lvars == <<loopPc, inputs, user_input, lastValid>>
vars == <<now, ivars, svars, lvars>>

NoResponse == Response("none", 0, Body("malformed", FALSE, EmptyDict))
NoReturn == Returned("none", "not called", EmptyDict)
NoValid == [given |-> FALSE, line |-> <<>>, at |-> 0]

Init ==
    /\ now = 0
    /\ pc = "START"
    /\ response = NoResponse
    /\ migraine_data = NoReturn
    /\ webhook_payload = NoPayload
    /\ payloadsBuilt = 0
    /\ gets = 0
    /\ posts = <<>>
    /\ file = NoFile
    /\ savePc = "idle"
    /\ prediction_data = EmptyDict
    /\ saves = 0
    /\ lastSaved = EmptyDict
    /\ lastGet = NoAnswer
    /\ lastHealth = NoHealth
    /\ loopPc = "prompt"
    /\ inputs = 0
    /\ user_input = <<>>
    /\ lastValid = NoValid

Tick ==
    /\ now < MaxTime
    /\ now' = now + 1
    /\ UNCHANGED <<ivars, svars, lvars>>

\* main calls get_migraine_data_from_external_api: one GET, then the if on
\* its result.
Fetch ==
    /\ pc = "START"
    /\ \E resp \in Responses :
        LET r == get_migraine_data_from_external_api(resp)
        IN  /\ response' = resp
            /\ migraine_data' = r
            /\ pc' = IF r.kind = "raise" THEN "CRASHED"
                     ELSE IF Truthy(r) THEN "FETCHED"
                     ELSE "FETCH_FAILED"
    /\ gets' = gets + 1
    /\ UNCHANGED <<now, webhook_payload, payloadsBuilt, posts>>
    /\ UNCHANGED <<svars, lvars>>

\* A main that builds the payload only inside the two alerting branches.
ClassifyReadingLazyPayload ==
    /\ pc = "FETCHED"
    /\ LET tier == Classify(migraine_data.data["migraine_probability"])
       IN  /\ webhook_payload' = IF tier = "NONE" THEN webhook_payload
                                 ELSE WebhookPayload(migraine_data.data, now)
           /\ payloadsBuilt' = IF tier = "NONE" THEN payloadsBuilt
                               ELSE payloadsBuilt + 1
           /\ pc' = "CLASSIFIED_" \o tier
    /\ UNCHANGED <<now, response, migraine_data, gets, posts>>
    /\ UNCHANGED <<svars, lvars>>

\* The body of "if migraine_data:" up to the call of the trigger.
ClassifyReading ==
    /\ pc = "FETCHED"
    /\ webhook_payload' = WebhookPayload(migraine_data.data, now)
    /\ payloadsBuilt' = payloadsBuilt + 1
    /\ pc' = "CLASSIFIED_" \o Classify(migraine_data.data["migraine_probability"])
    /\ UNCHANGED <<now, response, migraine_data, gets, posts>>
    /\ UNCHANGED <<svars, lvars>>

\* A dispatch that goes back to posting when the POST failed.
DispatchWithRetry ==
    /\ pc \in {"CLASSIFIED_WARNING", "CLASSIFIED_CRITICAL"}
    /\ \E outcome \in PostOutcomes, status \in PostStatuses :
        LET t == trigger_home_assistant_webhook(outcome, status)
            id == WebhookFor(IF pc = "CLASSIFIED_CRITICAL" THEN "CRITICAL" ELSE "WARNING")
        IN  /\ outcome # "ok" => status = 200
            /\ posts' = Append(posts, [webhook_id |-> id, payload |-> webhook_payload,
                                       result |-> t.result])
            /\ pc' = IF t.result = "DISPATCH_FAILED" THEN pc ELSE t.result
    /\ UNCHANGED <<now, response, migraine_data, webhook_payload, payloadsBuilt, gets>>
    /\ UNCHANGED <<svars, lvars>>

\* trigger_home_assistant_webhook with the tier's webhook id.
Dispatch ==
    /\ pc \in {"CLASSIFIED_WARNING", "CLASSIFIED_CRITICAL"}
    /\ \E outcome \in PostOutcomes, status \in PostStatuses :
        LET t == trigger_home_assistant_webhook(outcome, status)
            id == WebhookFor(IF pc = "CLASSIFIED_CRITICAL" THEN "CRITICAL" ELSE "WARNING")
        IN  /\ outcome # "ok" => status = 200
            /\ posts' = Append(posts, [webhook_id |-> id, payload |-> webhook_payload,
                                       result |-> t.result])
            /\ pc' = IF t.raised THEN "CRASHED" ELSE t.result
    /\ UNCHANGED <<now, response, migraine_data, webhook_payload, payloadsBuilt, gets>>
    /\ UNCHANGED <<svars, lvars>>

\* save_prediction up to and including open(json_path, 'w'), which creates
\* or truncates the file.
SaveOpen ==
    /\ savePc = "idle"
    /\ saves < MaxSaves
    /\ \E x \in SaveInputs : prediction_data' = PredictionData(x, now)
    /\ file' = [exists |-> TRUE, text |-> <<>>]
    /\ savePc' = "opened"
    /\ saves' = saves + 1
    /\ UNCHANGED <<now, ivars, lastSaved, lastGet, lastHealth>>
    /\ UNCHANGED lvars

\* json.dump and the close of the with block: the text reaches the file.
SaveWrite ==
    /\ savePc = "opened"
    /\ file' = [exists |-> TRUE, text |-> json_dump(prediction_data)]
    /\ lastSaved' = prediction_data
    /\ savePc' = "idle"
    /\ UNCHANGED <<now, ivars, prediction_data, saves, lastGet, lastHealth>>
    /\ UNCHANGED lvars

\* GET /prediction
GetPrediction ==
    /\ lastGet' = get_prediction(file, now)
    /\ UNCHANGED <<now, ivars, file, savePc, prediction_data, saves, lastSaved, lastHealth>>
    /\ UNCHANGED lvars

\* GET /health
HealthCheck ==
    /\ lastHealth' = health_check(file, now)
    /\ UNCHANGED <<now, ivars, file, savePc, prediction_data, saves, lastSaved, lastGet>>
    /\ UNCHANGED lvars

\* One pass of the loop of predict.py from input() on: a quit command ends
\* the loop, a line validate_input rejects goes back to the prompt, and an
\* accepted one enters save_prediction up to open(json_path, 'w').
ReadInput ==
    /\ loopPc = "prompt"
    /\ savePc = "idle"
    /\ inputs < MaxInputs
    /\ inputs' = inputs + 1
    /\ \E line \in UserInputs :
        LET v == validate_input(Strip(line))
        IN  /\ user_input' = Strip(line)
            /\ IF Lower(Strip(line)) \in QuitWords
               THEN /\ loopPc' = "exited"
                    /\ UNCHANGED <<file, savePc, prediction_data, saves, lastValid>>
               ELSE IF ~v.ok
               THEN UNCHANGED <<loopPc, file, savePc, prediction_data, saves, lastValid>>
               ELSE /\ prediction_data' = PredictionData(v.value, now)
                    /\ file' = [exists |-> TRUE, text |-> <<>>]
                    /\ savePc' = "opened"
                    /\ saves' = saves + 1
                    /\ lastValid' = [given |-> TRUE, line |-> Strip(line), at |-> now]
                    /\ UNCHANGED loopPc
    /\ UNCHANGED <<now, ivars, lastSaved, lastGet, lastHealth>>

\* input() raises EOFError: "except Exception" prints and the loop goes on.
InputEOF ==
    /\ loopPc = "prompt"
    /\ savePc = "idle"
    /\ inputs < MaxInputs
    /\ inputs' = inputs + 1
    /\ UNCHANGED <<now, ivars, svars, loopPc, user_input, lastValid>>

\* Ctrl+C: "except KeyboardInterrupt" leaves the loop.  Inside
\* save_prediction the with block closes the file on the way out, with what
\* json.dump had written by then.
KeyboardInterrupt ==
    /\ loopPc = "prompt"
    /\ loopPc' = "exited"
    /\ IF savePc = "opened"
       THEN /\ \E text \in Prefixes(json_dump(prediction_data)) :
                 file' = [exists |-> TRUE, text |-> text]
            /\ savePc' = "aborted"
       ELSE UNCHANGED <<file, savePc>>
    /\ UNCHANGED <<now, ivars, prediction_data, saves, lastSaved, lastGet, lastHealth>>
    /\ UNCHANGED <<inputs, user_input, lastValid>>

Next == Tick \/ Fetch \/ ClassifyReading \/ Dispatch

Spec == Init /\ [][Next]_vars

StoreNext == Tick \/ SaveOpen \/ SaveWrite \/ GetPrediction \/ HealthCheck

StoreSpec == Init /\ [][StoreNext]_vars

\* predict.py alone: the input loop and the file it writes.
PredictNext == Tick \/ ReadInput \/ InputEOF \/ KeyboardInterrupt \/ SaveWrite

PredictSpec == Init /\ [][PredictNext]_vars

\* save_prediction in the process of predict.py, interleaved with the
\* requests the API server answers in its own process.
RaceNext ==
    Tick \/ SaveOpen \/ SaveWrite \/ KeyboardInterrupt \/ GetPrediction \/ HealthCheck

RaceSpec == Init /\ [][RaceNext]_vars

---------------------------------------------------------------------------
\* Properties

\* The probability field of the body the source sent in this run.
SentProb == response.body.obj["migraine_probability"]

\* The GET was answered with status 200 and a JSON object.
GotObject ==
    /\ pc # "START"
    /\ response.outcome = "ok"
    /\ response.status = 200
    /\ response.body.kind = "dict"

\* The object's probability is a number within [0, 1].
GotValidReading ==
    /\ GotObject
    /\ SentProb.k = "num"
    /\ 0 <= SentProb.n /\ SentProb.n <= 10000

\* main() has nothing left to do.
RunEnded ==
    pc \in {"FETCH_FAILED", "CRASHED", "CLASSIFIED_NONE", "DISPATCHED", "DISPATCH_FAILED"}

PostedTo(id) == Len(posts) = 1 /\ posts[1].webhook_id = id

\* C1: a run whose fetched reading is valid with probability p makes no POST
\* when p < 0.40, exactly one POST, to the warning webhook, when
\* 0.40 <= p < 0.75, and exactly one POST, to the critical webhook, when
\* p >= 0.75; both thresholds are inclusive and CRITICAL wins.
C1_TierDecidesThePost ==
    GotValidReading =>
        /\ pc \notin {"FETCH_FAILED", "CRASHED"}
        /\ \A i \in 1..Len(posts) :
              posts[i].webhook_id =
                  IF SentProb.n >= 7500 THEN "critical_migraine_webhook"
                  ELSE "migraine_warning_webhook"
        /\ RunEnded =>
              /\ SentProb.n < 4000 => posts = <<>>
              /\ (4000 <= SentProb.n /\ SentProb.n < 7500) =>
                    PostedTo("migraine_warning_webhook")
              /\ SentProb.n >= 7500 => PostedTo("critical_migraine_webhook")

C1_Witness ==
    /\ GotValidReading
    /\ RunEnded
    /\ SentProb.n = 4000
    /\ PostedTo("migraine_warning_webhook")

\* C2: when the fetched object has no migraine_probability, or the field is
\* a string, boolean, null, list or object, or a number outside [0, 1], the
\* fetch returns None and the run makes no POST.
C2_InvalidProbabilityIsRejected ==
    (/\ GotObject
     /\ \/ SentProb.k \in {"absent", "str", "bool", "null", "list", "dict"}
        \/ SentProb.k = "num" /\ (SentProb.n < 0 \/ SentProb.n > 10000))
    => /\ migraine_data.kind = "none"
       /\ posts = <<>>

\* The fetch of this run failed in one of the listed ways.
FetchSideFailure ==
    /\ pc # "START"
    /\ \/ response.outcome \in {"timeout", "connerr", "reqexc"}
       \/ response.outcome = "ok" /\ response.status >= 400
       \/ response.outcome = "ok" /\ response.body.kind = "malformed"
       \/ migraine_data.cause = "Validation"

\* C3: a fetch-side failure (timeout, connection error, failing status,
\* malformed body, validation failure) ends the run: no POST, no
\* classification, no payload; and a run classified NONE makes no POST either.
C3_FetchFailureIsTerminal ==
    /\ FetchSideFailure =>
          /\ pc = "FETCH_FAILED"
          /\ posts = <<>>
          /\ payloadsBuilt = 0
          /\ webhook_payload = NoPayload
          /\ ~ENABLED ClassifyReading
          /\ ~ENABLED Dispatch
    /\ pc = "CLASSIFIED_NONE" => posts = <<>>

C3_Witness ==
    /\ pc = "FETCH_FAILED"
    /\ response.outcome = "ok"
    /\ response.status = 500
    /\ response.body.kind = "dict"
    /\ SentProb = Num(8000)

\* C4: for every response the fetch returns the reading or None, it never
\* raises, and main() runs to completion.
C4_FetchNeverRaises ==
    /\ migraine_data.kind # "raise"
    /\ pc # "CRASHED"

\* C5: when the POST fails (network error, timeout, failing status) the
\* trigger does not raise, main() completes, and the run has made exactly
\* one POST attempt.
C5_FailedPostIsNotRetried ==
    /\ Len(posts) <= 1
    /\ posts # <<>> =>
          /\ pc = posts[1].result
          /\ pc \in {"DISPATCHED", "DISPATCH_FAILED"}
          /\ ~ENABLED Dispatch
          /\ ~ENABLED Fetch

C5_Witness ==
    /\ pc = "DISPATCH_FAILED"
    /\ Len(posts) = 1
    /\ posts[1].result = "DISPATCH_FAILED"

\* C6 as stated: for every status outside 2xx the fetch does not return the
\* reading, and the body is never classified.
C6_AnyNon2xxIsFailure ==
    (/\ pc # "START"
     /\ response.outcome = "ok"
     /\ ~(200 <= response.status /\ response.status < 300))
    => /\ migraine_data.kind # "data"
       /\ payloadsBuilt = 0

\* C6 amended: for every 4xx and 5xx status the fetch returns None through
\* the HTTPError handler, whatever the body, and the body is never
\* validated or classified.
C6_ClientAndServerErrorsAreFailure ==
    (/\ pc # "START"
     /\ response.outcome = "ok"
     /\ 400 <= response.status /\ response.status < 600)
    => /\ migraine_data.kind = "none"
       /\ migraine_data.cause = "HTTPError"
       /\ pc = "FETCH_FAILED"
       /\ payloadsBuilt = 0
       /\ posts = <<>>

C6_Witness ==
    /\ pc = "FETCH_FAILED"
    /\ response.outcome = "ok"
    /\ response.status = 404
    /\ response.body.kind = "dict"
    /\ SentProb = Num(4000)

\* C7: every POSTed payload carries the fetched probability unchanged, the
\* fetched source and timestamp unchanged when present, and "unknown" and
\* the current time when absent; an absent source or timestamp neither
\* fails the run nor changes the tier.
C7_PayloadCarriesReading ==
    /\ \A i \in 1..Len(posts) :
          LET sent == response.body.obj
              pl == posts[i].payload
          IN  /\ pl.probability = sent["migraine_probability"]
              /\ HasKey(sent, "source") => pl.source = sent["source"]
              /\ ~HasKey(sent, "source") => pl.source = [k |-> "str", n |-> 0, s |-> "unknown"]
              /\ HasKey(sent, "timestamp") => pl.timestamp = sent["timestamp"]
              /\ ~HasKey(sent, "timestamp") =>
                    /\ pl.timestamp = [k |-> "num", n |-> pl.integrator_run_time * 10000, s |-> ""]
                    /\ pl.integrator_run_time <= now
    /\ (GotValidReading /\ RunEnded) =>
          /\ pc \notin {"FETCH_FAILED", "CRASHED"}
          /\ SentProb.n >= 4000 => Len(posts) = 1
          /\ \A i \in 1..Len(posts) :
                posts[i].webhook_id =
                    IF SentProb.n >= 7500 THEN "critical_migraine_webhook"
                    ELSE "migraine_warning_webhook"

C7_Witness ==
    /\ Len(posts) = 1
    /\ ~HasKey(response.body.obj, "timestamp")
    /\ response.body.obj["source"] = Str("wearable")
    /\ posts[1].payload.source = Str("wearable")
    /\ posts[1].payload.integrator_run_time = 1
    /\ SentProb = Num(8000)

\* C8 as stated: no payload is built in a run classified NONE.
C8_NoPayloadForNone ==
    pc = "CLASSIFIED_NONE" => payloadsBuilt = 0

\* C8 amended: the payload is built exactly once in every run whose fetch
\* returned a reading, the runs classified NONE included, and never in a run
\* whose fetch failed; it is sent only in a run classified WARNING or
\* CRITICAL, and what is sent is the payload that was built.
C8_PayloadBuiltOncePerReading ==
    /\ pc \in {"START", "FETCHED", "FETCH_FAILED", "CRASHED"} => payloadsBuilt = 0
    /\ pc \in {"CLASSIFIED_NONE", "CLASSIFIED_WARNING", "CLASSIFIED_CRITICAL",
               "DISPATCHED", "DISPATCH_FAILED"} =>
          /\ payloadsBuilt = 1
          /\ webhook_payload.probability = migraine_data.data["migraine_probability"]
    /\ pc = "CLASSIFIED_NONE" => posts = <<>>
    /\ \A i \in 1..Len(posts) : posts[i].payload = webhook_payload

C8_Witness ==
    /\ pc = "CLASSIFIED_NONE"
    /\ payloadsBuilt = 1
    /\ webhook_payload.probability = Num(3999)

\* C9: between save_prediction calls, GET /prediction answers 200 with the
\* reading of the last call when there was one, and 404 with the error
\* "No prediction available" when there was none; GET /health reports
\* prediction_available = false exactly when there was none.
C9_ApiServesLastSaved ==
    savePc = "idle" =>
        /\ saves > 0 =>
              /\ get_prediction(file, now).status = 200
              /\ get_prediction(file, now).body = lastSaved
              /\ lastSaved["source"].s = "manual_input"
              /\ lastSaved["migraine_probability"].k = "num"
        /\ saves = 0 =>
              /\ get_prediction(file, now).status = 404
              /\ get_prediction(file, now).body["error"].s = "No prediction available"
        /\ health_check(file, now).status = 200
        /\ health_check(file, now).body.prediction_available = (saves > 0)

C9_Witness ==
    /\ savePc = "idle"
    /\ saves = 2
    /\ lastGet.status = 200
    /\ lastGet.body = lastSaved
    /\ lastSaved["migraine_probability"] = Num(7500)
    /\ lastHealth.body.prediction_available

\* The steps a run may take.  A fetch that raises ends the run at once,
\* before any classification, like a fetch that returns None.
RunEdges ==
    {<<"START", "FETCHED">>, <<"START", "FETCH_FAILED">>, <<"START", "CRASHED">>,
     <<"FETCHED", "CLASSIFIED_NONE">>, <<"FETCHED", "CLASSIFIED_WARNING">>,
     <<"FETCHED", "CLASSIFIED_CRITICAL">>,
     <<"CLASSIFIED_WARNING", "DISPATCHED">>, <<"CLASSIFIED_WARNING", "DISPATCH_FAILED">>,
     <<"CLASSIFIED_CRITICAL", "DISPATCHED">>, <<"CLASSIFIED_CRITICAL", "DISPATCH_FAILED">>}

C10_Shape ==
    /\ gets = (IF pc = "START" THEN 0 ELSE 1)
    /\ Len(posts) = (IF pc \in {"DISPATCHED", "DISPATCH_FAILED"} THEN 1 ELSE 0)
    /\ posts # <<>> =>
          /\ response.outcome = "ok"
          /\ response.status < 400
          /\ response.body.kind = "dict"
          /\ SentProb.k \in {"num", "bool"}
          /\ migraine_data.kind = "data"
          /\ migraine_data.data = response.body.obj

C10_Step ==
    /\ pc' # pc => <<pc, pc'>> \in RunEdges
    /\ gets' # gets => pc = "START"
    /\ posts' # posts => pc \in {"CLASSIFIED_WARNING", "CLASSIFIED_CRITICAL"}
    /\ RunEnded => (pc' = pc /\ gets' = gets /\ posts' = posts)

StoredComplete ==
    /\ file.exists
    /\ Len(file.text) >= 2
    /\ file.text[1].s = "{"
    /\ file.text[Len(file.text)].s = "}"

\* What json.load reads from the file.
Stored == json_load(file.text).data

\* The answer of the API server for the file as it is, as the integrator's
\* GET receives it.
ServedToIntegrator ==
    Response("ok", get_prediction(file, now).status,
             Body("dict", FALSE, get_prediction(file, now).body))

\* The line is neither a quit command nor a number within [0, 1].
InvalidLine(line) ==
    /\ Lower(line) \notin {<<"q">>, <<"q", "u", "i", "t">>, <<"e", "x", "i", "t">>}
    /\ \/ ParseFloat(line).kind # "float"
       \/ ParseFloat(line).val < 0
       \/ ParseFloat(line).val > 100000

C11_Stored ==
    /\ ~lastValid.given => ~file.exists
    /\ (lastValid.given /\ loopPc = "prompt" /\ savePc = "idle") => StoredComplete
    /\ StoredComplete =>
          /\ lastValid.given
          /\ ParseFloat(lastValid.line).kind = "float"
          /\ Stored["migraine_probability"].k = "num"
          /\ Stored["migraine_probability"].n >= 0
          /\ Stored["migraine_probability"].n <= 10000
          /\ 10 * Stored["migraine_probability"].n - 5 < ParseFloat(lastValid.line).val
          /\ ParseFloat(lastValid.line).val < 10 * Stored["migraine_probability"].n + 5
          /\ Stored["source"] = [k |-> "str", n |-> 0, s |-> "manual_input"]
          /\ Stored["timestamp"] = [k |-> "num", n |-> lastValid.at * 10000, s |-> ""]
          /\ Stored["timestamp"].n % 10000 = 0
          /\ get_prediction(file, now).status = 200
          /\ get_migraine_data_from_external_api(ServedToIntegrator).kind = "data"
          /\ get_migraine_data_from_external_api(ServedToIntegrator).data = Stored

C11_Step ==
    /\ (inputs' = inputs + 1 /\ InvalidLine(user_input')) =>
          /\ file' = file
          /\ loopPc' = "prompt"
          /\ lastValid' = lastValid
    /\ (loopPc = "prompt" /\ loopPc' = "exited") =>
          \/ inputs' = inputs
          \/ Lower(user_input') \in {<<"q">>, <<"q", "u", "i", "t">>, <<"e", "x", "i", "t">>}
    /\ loopPc = "exited" => (loopPc' = "exited" /\ file' = file)

\* C11: the stored prediction, when there is one, is the reading of the most
\* recent valid input (its value rounded to four decimals, source
\* "manual_input", the integer time of that input) and passes the
\* integrator's fetch validation; an invalid input leaves the file unchanged
\* and the loop at the prompt; the loop ends only by a quit command or a
\* keyboard interrupt.
C11_StoredIsLastValidInput == []C11_Stored /\ [][C11_Step]_vars

C11_Witness ==
    /\ loopPc = "prompt"
    /\ savePc = "idle"
    /\ inputs = 2
    /\ lastValid.line = <<"0", ".", "7", "4", "9", "9", "6">>
    /\ lastValid.at = 1
    /\ user_input = <<"1", ".", "5">>
    /\ StoredComplete
    /\ Stored["migraine_probability"] = Num(7500)

\* A reading with all of its three fields, as save_prediction writes it.
CompleteReading(d) ==
    /\ d["migraine_probability"].k = "num"
    /\ d["timestamp"].k = "num"
    /\ d["source"].s = "manual_input"
    /\ d["error"].k = "absent"

\* C12: while save_prediction truncates and then writes the file, GET
\* /prediction answers 200 with a completely written reading or 404 with an
\* error object; it never answers 200 when the file is empty or holds only
\* a part of the text, and it never fails otherwise.
C12_ReadNeverSeesPartial ==
    /\ get_prediction(file, now).status \in {200, 404}
    /\ get_prediction(file, now).status = 200 =>
          /\ StoredComplete
          /\ file.text = json_dump(prediction_data)
          /\ get_prediction(file, now).body = prediction_data
          /\ CompleteReading(get_prediction(file, now).body)
    /\ ~StoredComplete =>
          /\ get_prediction(file, now).status = 404
          /\ get_prediction(file, now).body["error"].k = "str"
    /\ lastGet.status \in {0, 200, 404}
    /\ lastGet.status = 200 => CompleteReading(lastGet.body)
    /\ lastGet.status = 404 => lastGet.body["error"].k = "str"

C12_Witness ==
    /\ savePc = "opened"
    /\ saves = 2
    /\ file.text = <<>>
    /\ lastGet.status = 404
    /\ lastGet.body["error"] = Str("Failed to read prediction")
    /\ lastGet.body["timestamp"] = Num(now * 10000)

\* A GET answered after Ctrl+C left only a part of the text in the file.
C12_PartialSeen ==
    /\ savePc = "aborted"
    /\ file.text # <<>>
    /\ ~StoredComplete
    /\ lastGet.status = 404
    /\ lastGet.body["message"] = Str("Expecting ',' delimiter")

====
